---------------------------- MODULE Spec2Model ----------------------------
(***************************************************************************)
(* Model of egui_curve_editor's Curve (egui_curve_editor/src/curve.rs):    *)
(* an x-sorted vector of control points with per-side tangents, binary     *)
(* search, cubic Bezier sampling and automatic tangent recomputation.      *)
(*                                                                         *)
(* f32 values are modelled as extended rationals <<n, d>> in lowest terms: *)
(*   d > 0   the finite number n/d                                         *)
(*   <<1,0>>, <<-1,0>>   +infinity, -infinity                              *)
(*   <<0,0>>             NaN                                               *)
(* Arithmetic follows IEEE-754 on the special values (0*inf = NaN,         *)
(* inf-inf = NaN, y/0 = +-inf, 0/0 = NaN, every comparison with NaN is     *)
(* false); finite results are exact (rounding is not modelled, and the     *)
(* only zero is +0, which is what x - x yields in f32).                    *)
(* Indices are 0-based as in the source; points[i] of the source is        *)
(* pts[i + 1] here.                                                        *)
(***************************************************************************)
EXTENDS Integers, Sequences, FiniteSets, TLC

VARIABLES
    points,  \* Curve::points
    last,    \* the latest call: its name, arguments and result
    fault,   \* TRUE once a call has panicked
    calls    \* number of mutating calls made so far

vars == <<points, last, fault, calls>>

\* Number of mutating calls a behaviour of the model makes at most.
MaxCalls == 3

---------------------------------------------------------------------------
(* f32 arithmetic *)

Abs(n) == IF n < 0 THEN -n ELSE n

Sgn(n) == IF n > 0 THEN 1 ELSE IF n < 0 THEN -1 ELSE 0

RECURSIVE GCD(_, _)
GCD(a, b) == IF b = 0 THEN a ELSE GCD(b, a % b)

\* The value n/d in canonical form (d = 0 gives an infinity or NaN).
F(n, d) ==
    IF d = 0 THEN <<Sgn(n), 0>>
    ELSE LET g == GCD(Abs(n), Abs(d))
             s == Sgn(d)
         IN  <<(s * n) \div g, (s * d) \div g>>

NaN  == <<0, 0>>
PInf == <<1, 0>>
NInf == <<-1, 0>>
Zero == <<0, 1>>
One  == <<1, 1>>
Three == <<3, 1>>

IsNaN(a)      == a = NaN
IsInfinite(a) == a[2] = 0 /\ a[1] # 0
IsFinite(a)   == a[2] > 0

FNeg(a) == <<-a[1], a[2]>>

FAbs(a) == <<Abs(a[1]), a[2]>>

FMul(a, b) ==
    IF a[2] = 0 \/ b[2] = 0 THEN <<Sgn(a[1]) * Sgn(b[1]), 0>>
    ELSE LET g1 == GCD(Abs(a[1]), b[2])
             g2 == GCD(Abs(b[1]), a[2])
         IN  <<(a[1] \div g1) * (b[1] \div g2), (a[2] \div g2) * (b[2] \div g1)>>

FAdd(a, b) ==
    IF IsNaN(a) \/ IsNaN(b) THEN NaN
    ELSE IF a[2] = 0 /\ b[2] = 0 THEN (IF a = b THEN a ELSE NaN)
    ELSE IF a[2] = 0 THEN a
    ELSE IF b[2] = 0 THEN b
    ELSE LET g == GCD(a[2], b[2])
         IN  F(a[1] * (b[2] \div g) + b[1] * (a[2] \div g), a[2] * (b[2] \div g))

FSub(a, b) == FAdd(a, FNeg(b))

FRecip(b) ==
    IF b[1] = 0 THEN (IF b[2] = 0 THEN NaN ELSE PInf)
    ELSE IF b[1] > 0 THEN <<b[2], b[1]>>
    ELSE <<-b[2], -b[1]>>

FDiv(a, b) == FMul(a, FRecip(b))

FLt(a, b) ==
    IF IsNaN(a) \/ IsNaN(b) THEN FALSE
    ELSE IF a[2] = 0 \/ b[2] = 0 THEN a # b /\ (a = NInf \/ b = PInf)
    ELSE LET g == GCD(a[2], b[2])
         IN  a[1] * (b[2] \div g) < b[1] * (a[2] \div g)

FGt(a, b) == FLt(b, a)

FLe(a, b) == ~IsNaN(a) /\ ~IsNaN(b) /\ (a = b \/ FLt(a, b))

\* f32::clamp: a NaN stays NaN.
FClamp(v, lo, hi) ==
    IF FLt(v, lo) THEN lo ELSE IF FGt(v, hi) THEN hi ELSE v

---------------------------------------------------------------------------
(* Data model *)

Modes == {"Free", "Linear"}

Pos2(x, y) == [x |-> x, y |-> y]

\* Pos2::clamp(pos2(0,0), pos2(1,1)), componentwise.
ClampPos(pos) == Pos2(FClamp(pos.x, Zero, One), FClamp(pos.y, Zero, One))

\* Point::from_pos: default tangents 0.0 and default mode Linear.
FromPos(pos) ==
    [pos |-> pos, left_tan |-> Zero, right_tan |-> Zero,
     left_mode |-> "Linear", right_mode |-> "Linear"]

\* Curve::linear()
LinearCurve == <<FromPos(Pos2(Zero, Zero)), FromPos(Pos2(One, One))>>

\* Vec::insert(i, e) with 0-based i.
InsertAt(s, i, e) == SubSeq(s, 1, i) \o <<e>> \o SubSeq(s, i + 1, Len(s))

\* Vec::remove(i) with 0-based i.
RemoveAt(s, i) == SubSeq(s, 1, i) \o SubSeq(s, i + 2, Len(s))

---------------------------------------------------------------------------
(* Pure functions of the curve *)

\* The loop of get_index as it would be without the final check for an
\* offset past the last point.
RECURSIVE GetIndexLoopNoTail(_, _, _, _)
GetIndexLoopNoTail(pts, offset, min, max) ==
    IF max - min > 1
    THEN LET m == (min + max) \div 2
             a == pts[m + 1].pos.x
             b == pts[m + 2].pos.x
         IN  IF FLt(a, offset) /\ FLt(b, offset)
             THEN GetIndexLoopNoTail(pts, offset, m, max)
             ELSE IF FGt(a, offset)
             THEN GetIndexLoopNoTail(pts, offset, min, m)
             ELSE m
    ELSE min

\* The loop of get_index: the window [min, max] narrows while max - min > 1.
RECURSIVE GetIndexLoop(_, _, _, _)
GetIndexLoop(pts, offset, min, max) ==
    IF max - min > 1
    THEN LET m == (min + max) \div 2
             a == pts[m + 1].pos.x
             b == pts[m + 2].pos.x
         IN  IF FLt(a, offset) /\ FLt(b, offset)
             THEN GetIndexLoop(pts, offset, m, max)
             ELSE IF FGt(a, offset)
             THEN GetIndexLoop(pts, offset, min, m)
             ELSE m
    ELSE IF FGt(offset, pts[max + 1].pos.x) THEN max ELSE min

\* Curve::get_index; its callers guarantee at least two points.
get_index(pts, offset) == GetIndexLoop(pts, offset, 0, Len(pts) - 1)

\* v.y / v.x for v = (to - from).normalized().  Vec2::normalized returns v
\* itself when its length is 0 (then 0/0 = NaN) and v / length otherwise,
\* so the quotient is the slope dy/dx, +-inf for a vertical v.
Slope(from, to) == FDiv(FSub(to.y, from.y), FSub(to.x, from.x))

\* update_auto_tangents as it would be if it recomputed the neighbours'
\* facing sides without looking at their modes.
update_auto_tangents_any_mode(pts, index) ==
    LET i  == index + 1
        p0 == pts[i]
        hasPrev == index > 0
        hasNext == index + 1 < Len(pts)
        p1 == IF hasPrev /\ p0.left_mode = "Linear"
              THEN [p0 EXCEPT !.left_tan = Slope(p0.pos, pts[i - 1].pos)]
              ELSE p0
        p2 == IF hasNext /\ p1.right_mode = "Linear"
              THEN [p1 EXCEPT !.right_tan = Slope(p0.pos, pts[i + 1].pos)]
              ELSE p1
        s1 == IF hasPrev
              THEN [pts EXCEPT ![i - 1].right_tan = Slope(p0.pos, pts[i - 1].pos)]
              ELSE pts
        s2 == IF hasNext
              THEN [s1 EXCEPT ![i + 1].left_tan = Slope(p0.pos, pts[i + 1].pos)]
              ELSE s1
    IN  [s2 EXCEPT ![i] = p2]

\* update_auto_tangents as it would be if it wrote the previous point's
\* left tangent instead of its right (facing) one.
update_auto_tangents_wrong_side(pts, index) ==
    LET i  == index + 1
        p0 == pts[i]
        hasPrev == index > 0
        hasNext == index + 1 < Len(pts)
        p1 == IF hasPrev /\ p0.left_mode = "Linear"
              THEN [p0 EXCEPT !.left_tan = Slope(p0.pos, pts[i - 1].pos)]
              ELSE p0
        p2 == IF hasNext /\ p1.right_mode = "Linear"
              THEN [p1 EXCEPT !.right_tan = Slope(p0.pos, pts[i + 1].pos)]
              ELSE p1
        s1 == IF hasPrev /\ pts[i - 1].right_mode = "Linear"
              THEN [pts EXCEPT ![i - 1].left_tan = Slope(p0.pos, pts[i - 1].pos)]
              ELSE pts
        s2 == IF hasNext /\ pts[i + 1].left_mode = "Linear"
              THEN [s1 EXCEPT ![i + 1].left_tan = Slope(p0.pos, pts[i + 1].pos)]
              ELSE s1
    IN  [s2 EXCEPT ![i] = p2]

\* Curve::update_auto_tangents(index): the Linear sides of points[index]
\* and the facing Linear sides of its neighbours are recomputed.
update_auto_tangents(pts, index) ==
    LET i  == index + 1
        p0 == pts[i]
        hasPrev == index > 0
        hasNext == index + 1 < Len(pts)
        p1 == IF hasPrev /\ p0.left_mode = "Linear"
              THEN [p0 EXCEPT !.left_tan = Slope(p0.pos, pts[i - 1].pos)]
              ELSE p0
        p2 == IF hasNext /\ p1.right_mode = "Linear"
              THEN [p1 EXCEPT !.right_tan = Slope(p0.pos, pts[i + 1].pos)]
              ELSE p1
        s1 == IF hasPrev /\ pts[i - 1].right_mode = "Linear"
              THEN [pts EXCEPT ![i - 1].right_tan = Slope(p0.pos, pts[i - 1].pos)]
              ELSE pts
        s2 == IF hasNext /\ pts[i + 1].left_mode = "Linear"
              THEN [s1 EXCEPT ![i + 1].left_tan = Slope(p0.pos, pts[i + 1].pos)]
              ELSE s1
    IN  [s2 EXCEPT ![i] = p2]

\* AddIndex as it would be if, with two or more points stored, the point
\* were inserted at the found index instead of after it.
AddIndexAtFound(pts, point) ==
    IF Len(pts) = 0 THEN 0
    ELSE IF Len(pts) = 1
    THEN (IF FGt(FSub(point.pos.x, pts[1].pos.x), Zero) THEN 1 ELSE 0)
    ELSE get_index(pts, point.pos.x)

\* The index add_point inserts the (already clamped) point at.
AddIndex(pts, point) ==
    IF Len(pts) = 0 THEN 0
    ELSE IF Len(pts) = 1
    THEN (IF FGt(FSub(point.pos.x, pts[1].pos.x), Zero) THEN 1 ELSE 0)
    ELSE LET i == get_index(pts, point.pos.x)
         IN  IF i = 0 /\ FLt(point.pos.x, pts[1].pos.x) THEN 0 ELSE i + 1

\* add_point as it would be without the clamp of the position.
add_point_unclamped(pts, point) ==
    LET index == AddIndex(pts, point)
    IN  [pts |-> update_auto_tangents(InsertAt(pts, index, point), index),
         index |-> index]

\* Curve::add_point: the points after the call and the returned index.
add_point(pts, point) ==
    LET pt    == [point EXCEPT !.pos = ClampPos(point.pos)]
        index == AddIndex(pts, pt)
    IN  [pts |-> update_auto_tangents(InsertAt(pts, index, pt), index),
         index |-> index]

\* set_position as it would be without the check against the next point.
set_position_no_next_check(pts, index, pos0) ==
    LET pos == ClampPos(pos0)
    IN  IF index >= Len(pts) THEN pts
        ELSE IF index > 0 /\ FGt(pts[index].pos.x, pos.x) THEN pts
        ELSE update_auto_tangents([pts EXCEPT ![index + 1].pos = pos], index)

\* Curve::set_position: rejected moves leave the curve as it is.
set_position(pts, index, pos0) ==
    LET pos == ClampPos(pos0)
    IN  IF index >= Len(pts) THEN pts
        ELSE IF index > 0 /\ FGt(pts[index].pos.x, pos.x) THEN pts
        ELSE IF index < Len(pts) - 1 /\ FLt(pts[index + 2].pos.x, pos.x) THEN pts
        ELSE update_auto_tangents([pts EXCEPT ![index + 1].pos = pos], index)

\* set_left_tan as it would be if it rejected NaN but not the infinities.
set_left_tan_accepts_inf(pts, index, tangent) ==
    IF index >= Len(pts) \/ IsNaN(tangent) THEN pts
    ELSE [pts EXCEPT ![index + 1].left_tan = tangent,
                     ![index + 1].left_mode = "Free"]

\* Curve::set_left_tan
set_left_tan(pts, index, tangent) ==
    IF index >= Len(pts) \/ IsNaN(tangent) \/ IsInfinite(tangent) THEN pts
    ELSE [pts EXCEPT ![index + 1].left_tan = tangent,
                     ![index + 1].left_mode = "Free"]

\* Curve::set_right_tan
set_right_tan(pts, index, tangent) ==
    IF index >= Len(pts) \/ IsNaN(tangent) \/ IsInfinite(tangent) THEN pts
    ELSE [pts EXCEPT ![index + 1].right_tan = tangent,
                     ![index + 1].right_mode = "Free"]

\* const EPSILON: f32 = 0.00001
EPSILON == <<1, 100000>>

\* bezier_interpolate as it would be with the weights of start and end
\* exchanged.
bezier_interpolate_swapped(start, control_1, control_2, end, t) ==
    LET omt  == FSub(One, t)
        omt2 == FMul(omt, omt)
        omt3 == FMul(omt2, omt)
        t2   == FMul(t, t)
        t3   == FMul(t2, t)
    IN  FAdd(FAdd(FAdd(FMul(start, t3),
                       FMul(FMul(FMul(control_1, omt2), t), Three)),
                  FMul(FMul(FMul(control_2, omt), t2), Three)),
             FMul(end, omt3))

\* bezier_interpolate, evaluated in the source's order of operations.
bezier_interpolate(start, control_1, control_2, end, t) ==
    LET omt  == FSub(One, t)
        omt2 == FMul(omt, omt)
        omt3 == FMul(omt2, omt)
        t2   == FMul(t, t)
        t3   == FMul(t2, t)
    IN  FAdd(FAdd(FAdd(FMul(start, omt3),
                       FMul(FMul(FMul(control_1, omt2), t), Three)),
                  FMul(FMul(FMul(control_2, omt), t2), Three)),
             FMul(end, t3))

\* Curve::sample_local_nocheck(index, local_offset)
sample_local_nocheck(pts, index, local_offset) ==
    LET a == pts[index + 1]
        b == pts[index + 2]
        d == FSub(b.pos.x, a.pos.x)
    IN  IF FLt(FAbs(d), EPSILON) THEN b.pos.y
        ELSE LET t   == FDiv(local_offset, d)
                 d3  == FDiv(d, Three)
                 yac == FAdd(a.pos.y, FMul(d3, a.right_tan))
                 ybc == FSub(b.pos.y, FMul(d3, b.left_tan))
                 y   == bezier_interpolate(a.pos.y, yac, ybc, b.pos.y, t)
             IN  FClamp(y, Zero, One)

\* sample as it would be without the early return for an offset at or
\* before the first point.
sample_no_first_check(pts, offset) ==
    IF Len(pts) = 0 THEN Zero
    ELSE IF Len(pts) = 1 THEN pts[1].pos.y
    ELSE LET i == get_index(pts, offset)
         IN  IF i = Len(pts) - 1 THEN pts[i + 1].pos.y
             ELSE sample_local_nocheck(pts, i, FSub(offset, pts[i + 1].pos.x))

\* Curve::sample
sample(pts, offset) ==
    IF Len(pts) = 0 THEN Zero
    ELSE IF Len(pts) = 1 THEN pts[1].pos.y
    ELSE LET i == get_index(pts, offset)
         IN  IF i = Len(pts) - 1 THEN pts[i + 1].pos.y
             ELSE LET local == FSub(offset, pts[i + 1].pos.x)
                  IN  IF i = 0 /\ FLe(local, Zero) THEN pts[1].pos.y
                      ELSE sample_local_nocheck(pts, i, local)

---------------------------------------------------------------------------
(* The curve as a state machine: one action per public operation *)

Half == <<1, 2>>

\* Positions handed to add_point and set_position; (-1, 2) lies outside
\* the unit square and is clamped to (0, 1).
PosIn ==
    {Pos2(Zero, Zero), Pos2(Half, One), Pos2(One, Zero),
     Pos2(<<-1, 1>>, <<2, 1>>)}

\* Tangents handed to set_left_tan and set_right_tan.
TanIn == {<<3, 1>>, NaN, PInf}

\* Offsets handed to sample.
OffsetIn == {<<-1, 1>>, <<1, 4>>, Half, One, <<2, 1>>}

\* Indices handed to the indexed operations: every valid index and the
\* first invalid one.
IndexIn == 0..Len(points)

NoPos == Pos2(Zero, Zero)

Call(op, index, pos, val, res) ==
    [op |-> op, index |-> index, pos |-> pos, val |-> val, res |-> res]

\* Curve::default() (empty) or Curve::linear().
Init ==
    /\ points \in {<<>>, LinearCurve}
    /\ last = Call("new", 0, NoPos, Zero, Zero)
    /\ fault = FALSE
    /\ calls = 0

\* A mutating call is made: the program has not panicked.
Mutate ==
    /\ ~fault
    /\ calls < MaxCalls
    /\ calls' = calls + 1

\* add_point(Point::from_pos(pos)); last.index is the returned index.
AddPoint(pos) ==
    /\ Mutate
    /\ LET r == add_point(points, FromPos(pos))
       IN  /\ points' = r.pts
           /\ last' = Call("add_point", r.index, pos, Zero, Zero)
    /\ UNCHANGED fault

\* remove_point(index).  `index > self.points.len() - 1` underflows on the
\* empty curve: the subtraction panics with overflow checks, and wraps
\* without them, after which Vec::remove panics; both abort the call.
RemovePoint(index) ==
    /\ Mutate
    /\ last' = Call("remove_point", index, NoPos, Zero, Zero)
    /\ IF Len(points) = 0
       THEN fault' = TRUE /\ UNCHANGED points
       ELSE /\ points' = IF index > Len(points) - 1 THEN points
                         ELSE RemoveAt(points, index)
            /\ UNCHANGED fault

SetPosition(index, pos) ==
    /\ Mutate
    /\ points' = set_position(points, index, pos)
    /\ last' = Call("set_position", index, pos, Zero, Zero)
    /\ UNCHANGED fault

SetLeftTan(index, tangent) ==
    /\ Mutate
    /\ points' = set_left_tan(points, index, tangent)
    /\ last' = Call("set_left_tan", index, NoPos, tangent, Zero)
    /\ UNCHANGED fault

SetRightTan(index, tangent) ==
    /\ Mutate
    /\ points' = set_right_tan(points, index, tangent)
    /\ last' = Call("set_right_tan", index, NoPos, tangent, Zero)
    /\ UNCHANGED fault

\* sample(offset); last.val is the offset and last.res the returned value.
Sample(offset) ==
    /\ ~fault
    /\ last' = Call("sample", 0, NoPos, offset, sample(points, offset))
    /\ UNCHANGED <<points, fault, calls>>

Next ==
    \/ \E pos \in PosIn : AddPoint(pos)
    \/ \E index \in IndexIn : RemovePoint(index)
    \/ \E index \in IndexIn, pos \in PosIn : SetPosition(index, pos)
    \/ \E index \in IndexIn, tangent \in TanIn : SetLeftTan(index, tangent)
    \/ \E index \in IndexIn, tangent \in TanIn : SetRightTan(index, tangent)
    \/ \E offset \in OffsetIn : Sample(offset)

Spec == Init /\ [][Next]_vars

---------------------------------------------------------------------------
(* sample at the control points, as a function of the curve: the curves  *)
(* are drawn from strictly x-increasing point sequences whose tangents   *)
(* were set by set_left_tan / set_right_tan, two of the x values lying   *)
(* closer together than EPSILON.                                         *)

\* Largest number of points of the curves drawn.
MaxNearLen == 3

\* 1/2 + 2^-17: above 1/2 by less than EPSILON.
NearHalf == <<65537, 131072>>

NearPoints ==
    {[pos |-> Pos2(x, y), left_tan |-> lt, right_tan |-> rt,
      left_mode |-> "Free", right_mode |-> "Free"] :
        x \in {Zero, Half, NearHalf, One}, y \in {Zero, One},
        lt \in {<<-3, 1>>, <<3, 1>>}, rt \in {<<-3, 1>>, <<3, 1>>}}

NearCurves ==
    UNION {{c \in [1..n -> NearPoints] :
               \A i \in 1..(n - 1) : FLt(c[i].pos.x, c[i + 1].pos.x)} :
           n \in 2..MaxNearLen}

InitNear ==
    /\ points \in NearCurves
    /\ last = Call("new", 0, NoPos, Zero, Zero)
    /\ fault = FALSE
    /\ calls = 0

\* sample(points[i].pos.x) for a stored point i.
NextNear == \E i \in 1..Len(points) : Sample(points[i].pos.x)

SpecNear == InitNear /\ [][NextNear]_vars

---------------------------------------------------------------------------
(* get_index as a function of the curve and the offset: the curves are   *)
(* the ones add_point builds from the empty curve out of a sequence of   *)
(* positions, repeated x values included.                                *)

\* Largest number of points of the curves built.
MaxIndexLen == 5

Quarter == <<1, 4>>
ThreeQuarters == <<3, 4>>

\* The x values of the points added and the offsets looked up.
IndexX == {Zero, Quarter, Half, ThreeQuarters, One}

IndexOffsetIn == IndexX \cup {<<-1, 1>>, <<1, 8>>, <<7, 8>>, <<2, 1>>}

\* The curve after add_point(Point::from_pos(pos2(xs[j], 0))) for
\* j = 1..n, from the empty curve.
RECURSIVE AddAll(_, _)
AddAll(xs, n) ==
    IF n = 0 THEN <<>>
    ELSE add_point(AddAll(xs, n - 1), FromPos(Pos2(xs[n], Zero))).pts

IndexCurves ==
    UNION {{AddAll(xs, n) : xs \in [1..n -> IndexX]} : n \in 2..MaxIndexLen}

InitIndex ==
    /\ points \in IndexCurves
    /\ last = Call("new", 0, NoPos, Zero, Zero)
    /\ fault = FALSE
    /\ calls = 0

\* get_index(offset) on a curve of two or more points; last.index is the
\* returned index and last.val the offset.
GetIndex(offset) ==
    /\ ~fault
    /\ Len(points) >= 2
    /\ last' = Call("get_index", get_index(points, offset), NoPos, offset, Zero)
    /\ UNCHANGED <<points, fault, calls>>

NextIndex == \E offset \in IndexOffsetIn : GetIndex(offset)

SpecIndex == InitIndex /\ [][NextIndex]_vars

---------------------------------------------------------------------------
(* Vocabulary of the properties *)

\* v lies in [0, 1].
InUnit(v) == FLe(Zero, v) /\ FLe(v, One)

\* v brought into [0, 1] (v is finite).
ToUnit(v) == IF FLt(v, Zero) THEN Zero ELSE IF FLt(One, v) THEN One ELSE v

ToUnitPos(pos) == Pos2(ToUnit(pos.x), ToUnit(pos.y))

\* The x values of pts are non-decreasing.
IsSorted(pts) ==
    \A i \in 1..(Len(pts) - 1) : FLe(pts[i].pos.x, pts[i + 1].pos.x)

\* The x values of pts are strictly increasing.
IsStrictlySorted(pts) ==
    \A i \in 1..(Len(pts) - 1) : FLt(pts[i].pos.x, pts[i + 1].pos.x)

\* Every tangent of pts is finite.
HasFiniteTangents(pts) ==
    \A i \in 1..Len(pts) : IsFinite(pts[i].left_tan) /\ IsFinite(pts[i].right_tan)

\* Adjacent points of pts lie at least EPSILON apart in x.
HasWideSegments(pts) ==
    \A i \in 1..(Len(pts) - 1) :
        FLe(EPSILON, FSub(pts[i + 1].pos.x, pts[i].pos.x))

\* The latest call sampled at the x of a stored point and returned its y.
SampledExactly ==
    \A i \in 1..Len(points) :
        points[i].pos.x = last.val => last.res = points[i].pos.y

\* A Free side of point old is still Free, with the same tangent, in new.
KeepsFreeSides(old, new) ==
    /\ old.left_mode = "Free" =>
           new.left_mode = "Free" /\ new.left_tan = old.left_tan
    /\ old.right_mode = "Free" =>
           new.right_mode = "Free" /\ new.right_tan = old.right_tan

---------------------------------------------------------------------------
(* Properties *)

\* C1: after every call of add_point, set_position, remove_point,
\* set_left_tan and set_right_tan, from the empty curve or Curve::linear(),
\* the stored x values are non-decreasing.
C1_SortInvariant == IsSorted(points)

\* C1 witness: add_point has inserted strictly inside a curve that then
\* holds at least four points, so the binary search chose the place.
C1_Witness ==
    /\ last.op = "add_point"
    /\ Len(points) >= 4
    /\ last.index > 0
    /\ last.index < Len(points) - 1

\* C2: remove_point never faults; with an out-of-bounds index (on the empty
\* curve: any index) it leaves the points unchanged, with an in-bounds index
\* it removes exactly that point.
C2_RemovePointTotal ==
    [][last'.op = "remove_point" =>
          /\ ~fault'
          /\ IF last'.index >= Len(points)
             THEN points' = points
             ELSE points' = RemoveAt(points, last'.index)]_vars

\* C3: in every reachable state each Linear side with a neighbour on that
\* side (at another x) holds the slope of the line to that neighbour.
C3_LinearSidesFresh ==
    \A i \in 1..Len(points) :
        /\ (/\ i > 1
            /\ points[i].left_mode = "Linear"
            /\ points[i - 1].pos.x # points[i].pos.x)
           => points[i].left_tan =
                  FDiv(FSub(points[i].pos.y, points[i - 1].pos.y),
                       FSub(points[i].pos.x, points[i - 1].pos.x))
        /\ (/\ i < Len(points)
            /\ points[i].right_mode = "Linear"
            /\ points[i + 1].pos.x # points[i].pos.x)
           => points[i].right_tan =
                  FDiv(FSub(points[i + 1].pos.y, points[i].pos.y),
                       FSub(points[i + 1].pos.x, points[i].pos.x))

\* C4: on every reachable curve sample(x) returns a value in [0, 1].
C4_SampleInUnit == last.op = "sample" => InUnit(last.res)

\* C5: on a non-empty curve sample(x) is the first point's y for x before
\* the first point's x, the last point's y for x after the last point's x,
\* and the only point's y on a one-point curve.
C5_FlatExtrapolation ==
    (last.op = "sample" /\ Len(points) >= 1) =>
        /\ FLt(last.val, points[1].pos.x) => last.res = points[1].pos.y
        /\ FGt(last.val, points[Len(points)].pos.x) =>
               last.res = points[Len(points)].pos.y
        /\ Len(points) = 1 => last.res = points[1].pos.y

\* C5 witness: a sample before the first point of a curve of three or more
\* points that holds two adjacent points of equal x, where the first
\* segment, evaluated at that offset, would give another value.
C5_Witness ==
    /\ last.op = "sample"
    /\ Len(points) >= 3
    /\ FLt(last.val, points[1].pos.x)
    /\ \E i \in 1..(Len(points) - 1) : points[i].pos.x = points[i + 1].pos.x
    /\ points[2].pos.y # points[1].pos.y

\* C6 as stated: on every curve of two or more points with strictly
\* increasing x and finite tangents, sample(points[i].x) = points[i].y for
\* every index i.
C6_ExactAtControlPoints ==
    (/\ last.op = "sample"
     /\ Len(points) >= 2
     /\ IsStrictlySorted(points)
     /\ HasFiniteTangents(points))
    => SampledExactly

\* C6 amended: the same, on curves whose adjacent points lie at least
\* EPSILON (0.00001) apart in x.
C6_ExactAtWideControlPoints ==
    (/\ last.op = "sample"
     /\ Len(points) >= 2
     /\ IsStrictlySorted(points)
     /\ HasWideSegments(points)
     /\ HasFiniteTangents(points))
    => SampledExactly

\* C6 witness: an interior point of a curve with wide segments was sampled,
\* its y differing from both neighbours' y.
C6_Witness ==
    /\ last.op = "sample"
    /\ Len(points) >= 3
    /\ HasWideSegments(points)
    /\ last.val = points[2].pos.x
    /\ points[2].pos.y # points[1].pos.y
    /\ points[2].pos.y # points[3].pos.y

\* C7: set_position(index, pos), with c = pos clamped into the unit square:
\* an out-of-range index, a c.x below the previous point's x or a c.x above
\* the next point's x leaves the whole curve unchanged; otherwise
\* points[index] is at c afterwards and no other position changes.
C7_SetPositionContract ==
    [][last'.op = "set_position" =>
          LET i == last'.index
              c == ToUnitPos(last'.pos)
              n == Len(points)
          IN  IF \/ i >= n
                 \/ (i > 0 /\ FLt(c.x, points[i].pos.x))
                 \/ (i < n - 1 /\ FGt(c.x, points[i + 2].pos.x))
              THEN points' = points
              ELSE /\ Len(points') = n
                   /\ points'[i + 1].pos = c
                   /\ \A j \in 1..n :
                          j # i + 1 => points'[j].pos = points[j].pos]_vars

\* C7 witness: set_position was called on a point in range with a target
\* whose x lies beyond the next point's x, and the point was not moved.
C7_Witness ==
    /\ last.op = "set_position"
    /\ last.index < Len(points) - 1
    /\ FGt(ToUnit(last.pos.x), points[last.index + 2].pos.x)
    /\ points[last.index + 1].pos # ToUnitPos(last.pos)

\* C8: add_point grows the curve by exactly one point, keeps the stored
\* points in their relative order and returns an index k at which the
\* input position, clamped into the unit square, is stored; every stored
\* position lies in the unit square.
C8_AddPointContract ==
    [][last'.op = "add_point" =>
          LET k == last'.index
              n == Len(points)
          IN  /\ Len(points') = n + 1
              /\ k \in 0..n
              /\ points'[k + 1].pos = ToUnitPos(last'.pos)
              /\ \A j \in 1..n :
                     points'[IF j <= k THEN j ELSE j + 1].pos = points[j].pos
              /\ \A j \in 1..(n + 1) :
                     InUnit(points'[j].pos.x) /\ InUnit(points'[j].pos.y)]_vars

\* C8 witness: add_point was handed a position outside the unit square and
\* inserted it past the first two points of the curve.
C8_Witness ==
    /\ last.op = "add_point"
    /\ ~InUnit(last.pos.x)
    /\ last.index >= 2
    /\ points[last.index + 1].pos = ToUnitPos(last.pos)

\* C9: no add_point or set_position call changes the tangent or the mode
\* of a side whose mode is Free, on the point itself or on any other.
C9_FreeSidesUntouched ==
    [][/\ last'.op = "add_point" =>
              \A j \in 1..Len(points) :
                  KeepsFreeSides(points[j],
                                 points'[IF j <= last'.index THEN j ELSE j + 1])
       /\ last'.op = "set_position" =>
              /\ Len(points') = Len(points)
              /\ \A j \in 1..Len(points) :
                     KeepsFreeSides(points[j], points'[j])]_vars

\* C9 witness: set_position has moved a point whose left neighbour's right
\* side is Free and holds the value set by set_right_tan, not the slope of
\* the line between the two.
C9_Witness ==
    /\ last.op = "set_position"
    /\ last.index >= 1
    /\ last.index < Len(points)
    /\ points[last.index + 1].pos = ToUnitPos(last.pos)
    /\ points[last.index + 1].left_mode = "Linear"
    /\ points[last.index].right_mode = "Free"
    /\ points[last.index].right_tan = <<3, 1>>
    /\ points[last.index + 1].left_tan # <<3, 1>>

\* One side's tangent setter, by the fields it may write (tan, mode) and
\* the fields it must keep (otherTan, otherMode).
SetTanContract(old, new, i, v, tan, mode, otherTan, otherMode) ==
    IF i >= Len(old) \/ IsNaN(v) \/ IsInfinite(v)
    THEN new = old
    ELSE /\ Len(new) = Len(old)
         /\ new[i + 1][tan] = v
         /\ new[i + 1][mode] = "Free"
         /\ new[i + 1].pos = old[i + 1].pos
         /\ new[i + 1][otherTan] = old[i + 1][otherTan]
         /\ new[i + 1][otherMode] = old[i + 1][otherMode]
         /\ \A j \in 1..Len(old) : j # i + 1 => new[j] = old[j]

\* C10: set_left_tan / set_right_tan with an out-of-range index or a NaN or
\* infinite value leave the curve unchanged; otherwise that side's tangent
\* becomes the value and its mode Free, and nothing else changes.
C10_SetTanContract ==
    [][/\ last'.op = "set_left_tan" =>
              SetTanContract(points, points', last'.index, last'.val,
                             "left_tan", "left_mode", "right_tan", "right_mode")
       /\ last'.op = "set_right_tan" =>
              SetTanContract(points, points', last'.index, last'.val,
                             "right_tan", "right_mode", "left_tan", "left_mode")]_vars

\* C10 witness: set_left_tan was called with +infinity on a point in range
\* whose left side is still Linear with a finite tangent.
C10_Witness ==
    /\ last.op = "set_left_tan"
    /\ last.val = PInf
    /\ last.index < Len(points)
    /\ points[last.index + 1].left_mode = "Linear"
    /\ IsFinite(points[last.index + 1].left_tan)

\* C11: in every reachable state both tangents of every point are finite
\* (neither NaN nor infinite).
C11_TangentsFinite == HasFiniteTangents(points)

\* The index get_index returned is in range, is the last index for an
\* offset beyond the last point's x and 0 for an offset before the first
\* point's x.
IndexAtTheEnds ==
    LET i == last.index
        x == last.val
        n == Len(points)
    IN  /\ i \in 0..(n - 1)
        /\ FGt(x, points[n].pos.x) => i = n - 1
        /\ FLt(x, points[1].pos.x) => i = 0

\* C12 as stated: on an x-sorted curve of two or more points get_index(x)
\* returns an index i in range, the last index if x exceeds the last
\* point's x, 0 if x is before the first point's x, and otherwise an i with
\* points[i].x <= x < points[i+1].x.
C12_GetIndexHalfOpen ==
    (last.op = "get_index" /\ IsSorted(points)) =>
        /\ IndexAtTheEnds
        /\ (FLe(points[1].pos.x, last.val)
            /\ FLe(last.val, points[Len(points)].pos.x))
           => /\ last.index < Len(points) - 1
              /\ FLe(points[last.index + 1].pos.x, last.val)
              /\ FLt(last.val, points[last.index + 2].pos.x)

\* C12 amended: the same with the segment closed on the right,
\* points[i].x <= x <= points[i+1].x.
C12_GetIndexClosed ==
    (last.op = "get_index" /\ IsSorted(points)) =>
        /\ IndexAtTheEnds
        /\ (FLe(points[1].pos.x, last.val)
            /\ FLe(last.val, points[Len(points)].pos.x))
           => /\ last.index < Len(points) - 1
              /\ FLe(points[last.index + 1].pos.x, last.val)
              /\ FLe(last.val, points[last.index + 2].pos.x)

\* C12 witness: on a curve of five points the search moved its lower bound
\* up and returned the segment before the last one for an offset strictly
\* inside it.
C12_Witness ==
    /\ last.op = "get_index"
    /\ Len(points) = 5
    /\ last.index = 3
    /\ FLt(points[4].pos.x, last.val)
    /\ FLt(last.val, points[5].pos.x)

\* set_position(i, pos) on pts is not rejected (c is pos clamped).
MoveAccepted(pts, i, c) ==
    /\ i < Len(pts)
    /\ ~(i > 0 /\ FLt(c.x, pts[i].pos.x))
    /\ ~(i < Len(pts) - 1 /\ FGt(c.x, pts[i + 2].pos.x))

\* The points whose left or right tangent differs between before and after.
TanChanged(before, after) ==
    {j \in 1..Len(before) :
        \/ before[j].left_tan # after[j].left_tan
        \/ before[j].right_tan # after[j].right_tan}

\* Between before and after only tangents of the point at (0-based) index i
\* and the facing tangents of its two neighbours may differ.
OnlyNearTangents(before, after, i) ==
    /\ Len(after) = Len(before)
    /\ \A j \in 1..Len(before) :
           /\ after[j].pos = before[j].pos
           /\ after[j].left_mode = before[j].left_mode
           /\ after[j].right_mode = before[j].right_mode
           /\ (j < i \/ j > i + 2) => after[j] = before[j]
           /\ j = i => after[j].left_tan = before[j].left_tan
           /\ j = i + 2 => after[j].right_tan = before[j].right_tan

\* The recomputation made by the step: the points it started from (the
\* inserted or moved point in place, tangents not yet recomputed), or the
\* points after the step when the step made none.
BeforeRecompute ==
    IF last'.op = "add_point"
    THEN InsertAt(points, last'.index, FromPos(ToUnitPos(last'.pos)))
    ELSE IF /\ last'.op = "set_position"
            /\ MoveAccepted(points, last'.index, ToUnitPos(last'.pos))
    THEN [points EXCEPT ![last'.index + 1].pos = ToUnitPos(last'.pos)]
    ELSE points'

\* C13 as stated: the recomputation triggered by one add_point or one
\* successful set_position at index i changes tangents of at most two
\* points, only of the point itself and facing sides of adjacent points,
\* and no position, no mode and no point at distance 2 or more.
C13_AtMostTwoPoints ==
    [][last'.op \in {"add_point", "set_position"} =>
          \A before \in {BeforeRecompute} :
              /\ Cardinality(TanChanged(before, points')) <= 2
              /\ OnlyNearTangents(before, points', last'.index)]_vars

\* C13 amended: at most three points, the point itself and the facing
\* sides of both adjacent points.
C13_AtMostThreePoints ==
    [][last'.op \in {"add_point", "set_position"} =>
          \A before \in {BeforeRecompute} :
              /\ Cardinality(TanChanged(before, points')) <= 3
              /\ OnlyNearTangents(before, points', last'.index)]_vars

\* C13 witness: set_position has moved an interior point of a curve of four
\* or more points whose sides towards both neighbours, and the neighbours'
\* facing sides, are Linear and hold non-zero finite slopes.
C13_Witness ==
    /\ last.op = "set_position"
    /\ Len(points) >= 4
    /\ last.index >= 1
    /\ last.index < Len(points) - 1
    /\ points[last.index + 1].pos = ToUnitPos(last.pos)
    /\ \A t \in {points[last.index + 1].left_tan,
                 points[last.index + 1].right_tan,
                 points[last.index].right_tan,
                 points[last.index + 2].left_tan} : IsFinite(t) /\ t # Zero
    /\ points[last.index + 1].left_mode = "Linear"
    /\ points[last.index + 1].right_mode = "Linear"
    /\ points[last.index].right_mode = "Linear"
    /\ points[last.index + 2].left_mode = "Linear"

====
